---- MODULE Spec2Model ----
(***************************************************************************)
(* Transposed marking: exercise cell-range extraction and HTML pagination. *)
(*                                                                         *)
(* The module models these parts of the repository:                        *)
(*   - get_cell_loc / get_exercise_from_lab / get_exercises_from_lab,      *)
(*     pure functions over a notebook (specification SpecExtract), and     *)
(*     get_cell_loc with and without its early exit on longer notebooks    *)
(*     (specification SpecScan);                                           *)
(*   - the pagination of the roster into gid_pages and                     *)
(*     write_pages_to_files (specification SpecPages), and repeated runs   *)
(*     of write_pages_to_files into one directory (specification           *)
(*     SpecRerun);                                                         *)
(*   - persistent_fetch_lab_files and fetch_lab_files (specification       *)
(*     SpecFetch).                                                         *)
(*                                                                         *)
(* Text is a sequence of tokens: "#", the literal phrase "Exercise ",      *)
(* decimal digits, the line break "\n" and "x" for any other character.    *)
(***************************************************************************)
EXTENDS Integers, Sequences, FiniteSets, TLC

\* ------------------------------------------------------------------ bounds

\* Longest notebook (number of cells) that Init enumerates.
MaxCells == 3

\* Longest notebook that the comparison of the two scans enumerates.
MaxScanCells == 4

\* Largest number of runs of write_pages_to_files into one directory.
MaxRuns == 2

\* Largest num_tries that Init enumerates.
MaxTries == 3

\* Longest list of exercise numbers handed to get_exercises_from_lab.
MaxNums == 2

\* Longest roster (gid_list) that Init enumerates.
MaxStudents == 3

\* Largest --studentsperpage that Init enumerates.
MaxSpp == 2

\* Largest number of style fragments the renderer returns.
MaxCss == 2

\* The exercise numbers asked for; the headings of CellMenu name 1, 2, 3, 10.
ExerciseNumbers == {1, 2}

\* ------------------------------------------------------------ text helpers

\* "".join(parts): the concatenation of a list of text fragments.
RECURSIVE Join(_)
Join(parts) ==
    IF parts = <<>> THEN <<>> ELSE Head(parts) \o Join(Tail(parts))

\* One decimal digit as a token.
DigitTok(d) ==
    CASE d = 0 -> "0" [] d = 1 -> "1" [] d = 2 -> "2" [] d = 3 -> "3"
      [] d = 4 -> "4" [] d = 5 -> "5" [] d = 6 -> "6" [] d = 7 -> "7"
      [] d = 8 -> "8" [] d = 9 -> "9"

\* f"{n}" of a non-negative integer: its decimal digits, most significant first.
RECURSIVE Str(_)
Str(n) ==
    IF n < 10 THEN <<DigitTok(n)>> ELSE Str(n \div 10) \o <<DigitTok(n % 10)>>

\* pattern.format(ex_num=n): r"\#+.*Exercise " followed by the digits of n.
\* The regular expression is kept as the literal it ends with; HeadingSearch
\* gives the meaning of the prefix \#+.* .
Pattern(n) == <<"Exercise ">> \o Str(n)

\* text[j..] starts with lit.
StartsAt(text, j, lit) ==
    /\ j + Len(lit) - 1 <= Len(text)
    /\ \A k \in 1..Len(lit) : text[j + k - 1] = lit[k]

\* re.search(pattern.format(ex_num=n), text): somewhere a "#", then any
\* characters other than a line break ("." does not match "\n"), then the
\* literal "Exercise " and the digits of n.  Nothing anchors the match to
\* the start of a line, and nothing has to follow the digits.
HeadingSearch(n, text) ==
    \E i \in 1..Len(text) :
        /\ text[i] = "#"
        /\ \E j \in (i + 1)..Len(text) :
              /\ \A k \in (i + 1)..(j - 1) : text[k] # "\n"
              /\ StartsAt(text, j, Pattern(n))

\* ---------------------------------------------------------------- notebooks

\* A cell: its cell_type and its source, a str (form "str", one part) or a
\* list of str (form "list").
Cell(type, form, parts) == [cell_type |-> type, form |-> form, parts |-> parts]

H1 == <<"#", "#", " ", "Exercise ", "1">>
H2 == <<"#", " ", "Exercise ", "2", "\n", "x">>
H3 == <<"#", "#", " ", "Exercise ", "3">>
H10 == <<"#", " ", "Exercise ", "1", "0">>

\* The cells notebooks are built from.
CellMenu ==
    { Cell("code", "str", <<H1>>),                       \* a code cell is never a heading
      Cell("markdown", "str", <<<<>>>>),                 \* empty markdown cell
      Cell("markdown", "str", <<H1>>),                   \* "## Exercise 1"
      Cell("markdown", "list", << <<"#", " ">>, <<"Exercise ", "2", "\n">>, <<"x">> >>),
      Cell("markdown", "str", <<H3>>),                   \* "## Exercise 3"
      Cell("markdown", "str", <<H1 \o <<"\n">> \o H2>>), \* two headings in one cell
      Cell("markdown", "str", <<H10>>) }                 \* "# Exercise 10"

\* All sequences over S of length lo..hi.
SeqsOf(S, lo, hi) == UNION { [1..k -> S] : k \in lo..hi }

\* notebook["cells"] of the notebooks enumerated.
Notebooks == SeqsOf(CellMenu, 0, MaxCells)

\* Lines 240-243: the text of a cell's source.
CellSource(cell) ==
    IF cell.form = "list" THEN Join(cell.parts) ELSE cell.parts[1]

\* ------------------------------------------------------------- get_cell_loc

\* Lines 238-256 of the notebook version: the scan from the cell of 0-based
\* index i on, with a and b as recorded so far.  A match for n assigns a,
\* otherwise a match for n + 1 assigns b; the scan stops once a > 0 and b > 0.
RECURSIVE ScanCells(_, _, _, _, _)
ScanCells(cells, n, i, a, b) ==
    IF i >= Len(cells) THEN <<a, b>>
    ELSE
        LET cell == cells[i + 1]
            src == CellSource(cell)
            isMd == cell.cell_type = "markdown"
            a1 == IF isMd /\ Len(src) # 0 /\ HeadingSearch(n, src) THEN i ELSE a
            b1 == IF isMd /\ Len(src) # 0 /\ ~HeadingSearch(n, src)
                        /\ HeadingSearch(n + 1, src)
                  THEN i ELSE b
        IN  IF a1 > 0 /\ b1 > 0 THEN <<a1, b1>>
            ELSE ScanCells(cells, n, i + 1, a1, b1)

\* get_cell_loc of the notebook version: (a, b) as returned, and the message
\* printed.  No branch raises.
get_cell_loc(cells, n) ==
    LET ab == ScanCells(cells, n, 0, -1, -1)
        a == ab[1]
        b == ab[2]
    IN  IF a = -1 THEN [a |-> a, b |-> b, msg |-> "a not found"]
        ELSE IF b = -1 THEN [a |-> a, b |-> Len(cells), msg |-> "b not found"]
        ELSE IF a >= b THEN [a |-> a, b |-> b, msg |-> "something went wrong"]
        ELSE [a |-> a, b |-> b, msg |-> "none"]

\* write_exercise_to_html.py, lines 268-282: the same scan without the early
\* exit.
RECURSIVE ScanCellsScript(_, _, _, _, _)
ScanCellsScript(cells, n, i, a, b) ==
    IF i >= Len(cells) THEN <<a, b>>
    ELSE
        LET cell == cells[i + 1]
            src == CellSource(cell)
            isMd == cell.cell_type = "markdown"
            a1 == IF isMd /\ Len(src) # 0 /\ HeadingSearch(n, src) THEN i ELSE a
            b1 == IF isMd /\ Len(src) # 0 /\ ~HeadingSearch(n, src)
                        /\ HeadingSearch(n + 1, src)
                  THEN i ELSE b
        IN  ScanCellsScript(cells, n, i + 1, a1, b1)

\* get_cell_loc of write_exercise_to_html.py: b stays -1 when no heading for
\* n + 1 is found.
get_cell_loc_script(cells, n) ==
    LET ab == ScanCellsScript(cells, n, 0, -1, -1)
        a == ab[1]
        b == ab[2]
    IN  IF a = -1 THEN [a |-> a, b |-> b, msg |-> "a not found"]
        ELSE IF b = -1 THEN [a |-> a, b |-> b, msg |-> "b not found"]
        ELSE IF a >= b THEN [a |-> a, b |-> b, msg |-> "something went wrong"]
        ELSE [a |-> a, b |-> b, msg |-> "none"]

\* Python's seq[a:b] on a 1-based TLA+ sequence: a negative index counts from
\* the end, and both ends are clamped to 0..len.
PyIndex(len, x) ==
    IF x < 0 THEN (IF x + len < 0 THEN 0 ELSE x + len)
    ELSE IF x > len THEN len ELSE x

PySlice(seq, a, b) ==
    LET lo == PyIndex(Len(seq), a)
        hi == PyIndex(Len(seq), b)
    IN  IF lo >= hi THEN <<>> ELSE SubSeq(seq, lo + 1, hi)

\* get_exercise_from_lab, lines 291-293: the cells kept for one exercise.
get_exercise_from_lab(cells, n) ==
    LET ab == get_cell_loc(cells, n)
    IN  PySlice(cells, ab.a, ab.b)

\* sum(list_of_lists, []): concatenation in list order.
RECURSIVE SumLists(_)
SumLists(lists) ==
    IF lists = <<>> THEN <<>> ELSE Head(lists) \o SumLists(Tail(lists))

\* The numbers of nums in increasing order (insertion sort).
RECURSIVE SortNums(_)
SortNums(nums) ==
    IF nums = <<>> THEN <<>>
    ELSE LET rest == SortNums(Tail(nums))
             x == Head(nums)
             lower == SelectSeq(rest, LAMBDA y : y < x)
             upper == SelectSeq(rest, LAMBDA y : y >= x)
         IN  lower \o <<x>> \o upper

\* Mutant of get_exercises_from_lab: the slices are taken in document
\* (increasing exercise) order instead of the order the numbers were given.
get_exercises_from_lab_sorted(cells, nums) ==
    LET sorted == SortNums(nums)
    IN  SumLists([k \in 1..Len(sorted) |->
                     PySlice(cells, get_cell_loc(cells, sorted[k]).a,
                                    get_cell_loc(cells, sorted[k]).b)])

\* get_exercises_from_lab, lines 332-335: the cells kept for a list of
\* exercise numbers.
get_exercises_from_lab(cells, nums) ==
    LET ab_list == [k \in 1..Len(nums) |-> get_cell_loc(cells, nums[k])]
    IN  SumLists([k \in 1..Len(nums) |->
                     PySlice(cells, ab_list[k].a, ab_list[k].b)])

\* ------------------------------------------------------------------- state

VARIABLES
    \* extraction (SpecExtract)
    notebook,        \* the cells of the notebook handed in
    exercise_nums,   \* the exercise numbers asked for
    xpc,             \* "start", "located", "located_script", "single", "merged"
    loc,             \* what get_cell_loc returned
    lab_cells,       \* lab_fmt["cells"] after the slice
    \* pagination and write_pages_to_files (SpecPages)
    gid_list,        \* the roster, in order
    spp,             \* students per page
    lab_files,       \* keys of the dict of fetched submissions, in insertion order
    exercise_num,    \* the exercise selector handed to write_pages_to_files
    gid_pages,       \* page number k is gid_pages[k + 1]
    wpc,             \* "main", "call", "pages", "gids", "done", "raised", "idle"
    parser,          \* the extraction function write_pages_to_files selected
    exercise_num_str,\* the selector as it appears in the file names
    page_number,     \* the page the loop of line 399 is at
    gi,              \* number of gids of the page handled so far
    fp,              \* page number of the open file, -1 when none is open
    files,           \* the page files created, each with its content
    styles,          \* indices i of the style{i}.css files written
    warned,          \* gids reported as not found in lab_files
    error,           \* the exception that ended the run, "none" otherwise
    \* persistent_fetch_lab_files (SpecFetch)
    num_tries,       \* the argument num_tries
    attempt,         \* the loop variable i of line 198
    missing_keys,    \* np.setdiff1d(gid_list, received_keys)
    fetching,        \* the gid_list the running fetch_lab_files was handed
    fidx,            \* number of gids fetch_lab_files has gone past
    labs,            \* keys of the dict fetch_lab_files is building
    broke,           \* the loop of line 139 was left by break
    failed,          \* history: gids whose fetch has raised GithubException
    fpc,             \* "first", "retry", "returned", "idle"
    \* the output directory across runs (SpecRerun)
    disk,            \* the page files earlier runs left in save_dir
    calls            \* number of runs of write_pages_to_files begun

xvars == <<notebook, exercise_nums, xpc, loc, lab_cells>>

pvars == <<gid_list, spp, lab_files, exercise_num, gid_pages, wpc, parser,
           exercise_num_str, page_number, gi, fp, files, styles, warned, error>>

fvars == <<num_tries, attempt, missing_keys, fetching, fidx, labs, broke,
           failed, fpc>>

dvars == <<disk, calls>>

vars == <<xvars, pvars, fvars, dvars>>

\* save_dir holds no page file when the first run begins.
DirInit ==
    /\ disk = {}
    /\ calls = 1

\* The fetch variables while persistent_fetch_lab_files is not exercised.
FetchIdle ==
    /\ num_tries = 1
    /\ attempt = 0
    /\ missing_keys = <<>>
    /\ fetching = <<>>
    /\ fidx = 0
    /\ labs = <<>>
    /\ broke = FALSE
    /\ failed = {}
    /\ fpc = "idle"

\* The page variables while only the extraction functions are exercised.
PagesIdle ==
    /\ gid_list = <<>>
    /\ spp = 1
    /\ lab_files = <<>>
    /\ exercise_num = [kind |-> "int", n |-> 1, nums |-> <<>>]
    /\ gid_pages = <<>>
    /\ wpc = "idle"
    /\ parser = "unset"
    /\ exercise_num_str = <<>>
    /\ page_number = 0
    /\ gi = 0
    /\ fp = -1
    /\ files = <<>>
    /\ styles = {}
    /\ warned = <<>>
    /\ error = "none"

NoLoc == [a |-> -1, b |-> -1, msg |-> "unset"]

XInit ==
    /\ notebook \in Notebooks
    /\ exercise_nums \in SeqsOf(ExerciseNumbers, 1, MaxNums)
    /\ xpc = "start"
    /\ loc = NoLoc
    /\ lab_cells = <<>>
    /\ PagesIdle
    /\ FetchIdle
    /\ DirInit

\* get_cell_loc(notebook, exercise_nums[0]).
GetCellLoc ==
    /\ xpc = "start"
    /\ loc' = get_cell_loc(notebook, exercise_nums[1])
    /\ xpc' = "located"
    /\ UNCHANGED <<notebook, exercise_nums, lab_cells>>
    /\ UNCHANGED <<pvars, fvars, dvars>>

\* get_exercise_from_lab(lab, exercise_nums[0]): locate, then slice.
GetExerciseFromLab ==
    /\ xpc = "start"
    /\ loc' = get_cell_loc(notebook, exercise_nums[1])
    /\ lab_cells' = get_exercise_from_lab(notebook, exercise_nums[1])
    /\ xpc' = "single"
    /\ UNCHANGED <<notebook, exercise_nums>>
    /\ UNCHANGED <<pvars, fvars, dvars>>

\* get_exercises_from_lab(lab, exercise_nums).
GetExercisesFromLab ==
    /\ xpc = "start"
    /\ lab_cells' = get_exercises_from_lab(notebook, exercise_nums)
    /\ xpc' = "merged"
    /\ UNCHANGED <<notebook, exercise_nums, loc>>
    /\ UNCHANGED <<pvars, fvars, dvars>>

\* get_cell_loc of write_exercise_to_html.py on the same input.
GetCellLocScript ==
    /\ xpc = "start"
    /\ loc' = get_cell_loc_script(notebook, exercise_nums[1])
    /\ xpc' = "located_script"
    /\ UNCHANGED <<notebook, exercise_nums, lab_cells>>
    /\ UNCHANGED <<pvars, fvars, dvars>>

XNext ==
    \/ GetCellLoc
    \/ GetCellLocScript
    \/ GetExerciseFromLab
    \/ GetExercisesFromLab

SpecExtract == XInit /\ [][XNext]_vars

\* get_cell_loc alone, in both versions, on longer notebooks.
ScanInit ==
    /\ notebook \in SeqsOf(CellMenu, 0, MaxScanCells)
    /\ exercise_nums \in SeqsOf(ExerciseNumbers, 1, 1)
    /\ xpc = "start"
    /\ loc = NoLoc
    /\ lab_cells = <<>>
    /\ PagesIdle
    /\ FetchIdle
    /\ DirInit

ScanNext ==
    \/ GetCellLoc
    \/ GetCellLocScript

SpecScan == ScanInit /\ [][ScanNext]_vars

\* ------------------------------------------------------------- pagination

\* Mutant of NumPages: the number of pages rounded up, ceil(size / p).
NumPagesCeil(size, p) == (size + p - 1) \div p

\* Line 556: num_pages = gid_list.size // spp + 1.
NumPages(size, p) == size \div p + 1

\* Mutant of PageSlice: the slice is one id too long, so that consecutive
\* pages overlap.
PageSliceLong(list, p, page) == PySlice(list, p * page, p * page + p + 1)

\* Line 558: gid_list[spp * page : (spp * page + spp)].
PageSlice(list, p, page) == PySlice(list, p * page, p * page + p)

\* Lines 557-560: the dict page -> slice, for page in range(num_pages); a
\* dict keeps its insertion order, page k is element k + 1.
GidPages(list, p) ==
    [k \in 1..NumPages(Len(list), p) |-> PageSlice(list, p, k - 1)]

\* ------------------------------------------------- write_pages_to_files

GIDs == {"s1", "s2", "s3"}

\* nbformat.reads(lab_files[gid], as_version=4): the notebook of the student's
\* submission, or a failure when the bytes fetched are no notebook.
\* "s1" answers exercises 1 and 2, "s2" only exercise 2, the file fetched for
\* "s3" cannot be parsed.
LabOf(gid) ==
    CASE gid = "s1" ->
           [ok |-> TRUE,
            cells |-> << Cell("markdown", "str", <<H1>>),
                         Cell("code", "str", <<<<"x">>>>),
                         Cell("markdown", "str", <<H2>>),
                         Cell("code", "str", <<<<"x", "x">>>>) >>]
      [] gid = "s2" ->
           [ok |-> TRUE,
            cells |-> << Cell("markdown", "str", <<<<"x">>>>),
                         Cell("markdown", "str", <<H2>>) >>]
      [] OTHER -> [ok |-> FALSE, cells |-> <<>>]

\* exercise_num as handed in: an int, or a list of ints.
IntSel(n) == [kind |-> "int", n |-> n, nums |-> <<>>]
ListSel(nums) == [kind |-> "list", n |-> 0, nums |-> nums]

Selectors ==
    {IntSel(1), IntSel(21), ListSel(<<2, 1>>), ListSel(<<1>>), ListSel(<<>>)}

\* Sequences over S without repetition, of length at most hi.
DistinctSeqsOf(S, hi) ==
    { q \in SeqsOf(S, 0, hi) : \A i, j \in 1..Len(q) : q[i] = q[j] => i = j }

InDict(keys, gid) == \E i \in 1..Len(keys) : keys[i] = gid

\* parser(lab, exercise_num)[0] on a parsed notebook: the cells rendered.
ParserCells(which, cells, sel) ==
    IF which = "get_exercises_from_lab"
    THEN get_exercises_from_lab(cells, sel.nums)
    ELSE get_exercise_from_lab(cells, sel.n)

\* What is written to a page file, piece by piece.
HeadTok == [tag |-> "head", gid |-> "", cells |-> <<>>]
H1Tok(gid) == [tag |-> "h1", gid |-> gid, cells |-> <<>>]
BodyTok(cells) == [tag |-> "body", gid |-> "", cells |-> cells]
EndTok == [tag |-> "/body", gid |-> "", cells |-> <<>>]

ExtractIdle ==
    /\ notebook = <<>>
    /\ exercise_nums = <<>>
    /\ xpc = "idle"
    /\ loc = NoLoc
    /\ lab_cells = <<>>

PInit ==
    /\ gid_list \in SeqsOf(GIDs, 0, MaxStudents)
    /\ spp \in 1..MaxSpp
    /\ lab_files \in DistinctSeqsOf(GIDs, Cardinality(GIDs))
    /\ exercise_num \in Selectors
    /\ gid_pages = <<>>
    /\ wpc = "main"
    /\ parser = "unset"
    /\ exercise_num_str = <<>>
    /\ page_number = 0
    /\ gi = 0
    /\ fp = -1
    /\ files = <<>>
    /\ styles = {}
    /\ warned = <<>>
    /\ error = "none"
    /\ ExtractIdle
    /\ FetchIdle
    /\ DirInit

\* util.py, lines 128-145 (and lines 523-531 of the script): an empty list
\* raises ValueError, a list of one number becomes that number, anything
\* else is handed on as it is.
format_exercise_num(sel) ==
    IF sel.kind = "list" /\ Len(sel.nums) = 0
    THEN [raises |-> TRUE, value |-> sel]
    ELSE IF sel.kind = "list" /\ Len(sel.nums) = 1
         THEN [raises |-> FALSE, value |-> IntSel(sel.nums[1])]
         ELSE [raises |-> FALSE, value |-> sel]

\* The script's handling of --exercise before any other work.  A caller of
\* write_pages_to_files that sets exercise_num itself (line 598) skips it.
FormatExerciseNum ==
    /\ wpc = "main"
    /\ IF format_exercise_num(exercise_num).raises
       THEN /\ wpc' = "raised"
            /\ error' = "ValueError"
            /\ UNCHANGED exercise_num
       ELSE /\ exercise_num' = format_exercise_num(exercise_num).value
            /\ UNCHANGED <<wpc, error>>
    /\ UNCHANGED <<gid_list, spp, lab_files, gid_pages, parser,
                   exercise_num_str, page_number, gi, fp, files, styles,
                   warned>>
    /\ UNCHANGED <<xvars, fvars, dvars>>

\* Lines 556-560 of the script: the roster is cut into pages.
Paginate ==
    /\ wpc = "main"
    /\ gid_pages' = GidPages(gid_list, spp)
    /\ wpc' = "call"
    /\ UNCHANGED <<gid_list, spp, lab_files, exercise_num, parser,
                   exercise_num_str, page_number, gi, fp, files, styles,
                   warned, error>>
    /\ UNCHANGED <<xvars, fvars, dvars>>

\* Lines 374-376: a list or tuple whose length is not 1 selects
\* get_exercises_from_lab; the file name carries the numbers joined.
SelectMerged ==
    /\ wpc = "call"
    /\ exercise_num.kind = "list"
    /\ Len(exercise_num.nums) # 1
    /\ exercise_num_str' =
           Join([k \in 1..Len(exercise_num.nums) |-> Str(exercise_num.nums[k])])
    /\ parser' = "get_exercises_from_lab"
    /\ wpc' = "pages"
    /\ page_number' = 0
    /\ UNCHANGED <<gid_list, spp, lab_files, exercise_num, gid_pages, gi, fp,
                   files, styles, warned, error>>
    /\ UNCHANGED <<xvars, fvars, dvars>>

\* Lines 377-379: an int selects get_exercise_from_lab.
SelectSingle ==
    /\ wpc = "call"
    /\ exercise_num.kind = "int"
    /\ exercise_num_str' = Str(exercise_num.n)
    /\ parser' = "get_exercise_from_lab"
    /\ wpc' = "pages"
    /\ page_number' = 0
    /\ UNCHANGED <<gid_list, spp, lab_files, exercise_num, gid_pages, gi, fp,
                   files, styles, warned, error>>
    /\ UNCHANGED <<xvars, fvars, dvars>>

\* Lines 380-385: anything else is coerced with int(exercise_num); for the
\* list of one number that reaches this branch int() raises TypeError.
SelectCoerce ==
    /\ wpc = "call"
    /\ exercise_num.kind = "list"
    /\ Len(exercise_num.nums) = 1
    /\ wpc' = "raised"
    /\ error' = "TypeError"
    /\ UNCHANGED <<gid_list, spp, lab_files, exercise_num, gid_pages, parser,
                   exercise_num_str, page_number, gi, fp, files, styles, warned>>
    /\ UNCHANGED <<xvars, fvars, dvars>>

\* The files of save_dir with the name fname_html gives for (ex, page); the
\* name holds nothing else that varies, course and lab being fixed.
OnDisk(ex, page) == { d \in disk : d.ex = ex /\ d.page = page }

\* open(fname, "a"): the content a file of that name already has, nothing
\* when there is none.
Existing(ex, page) ==
    IF OnDisk(ex, page) = {} THEN <<>>
    ELSE (CHOOSE d \in OnDisk(ex, page) : TRUE).content

\* Lines 399-408: the next page's file is opened in mode "a" and the head
\* is written after whatever the file holds.
OpenPage ==
    /\ wpc = "pages"
    /\ page_number < Len(gid_pages)
    /\ files' = Append(files,
                       [page |-> page_number,
                        content |-> Existing(exercise_num_str, page_number)
                                        \o <<HeadTok>>])
    /\ fp' = page_number
    /\ gi' = 0
    /\ wpc' = "gids"
    /\ UNCHANGED <<gid_list, spp, lab_files, exercise_num, gid_pages, parser,
                   exercise_num_str, page_number, styles, warned, error>>
    /\ UNCHANGED <<xvars, fvars, dvars>>

\* The gid the loop of line 409 is at.
CurrentGid == gid_pages[page_number + 1][gi + 1]

\* files with tokens appended to the content of the open file.
Written(toks) ==
    [files EXCEPT ![Len(files)].content = @ \o toks]

\* Mutant of SkipMissingGid: a gid that is no key of lab_files ends the page,
\* the gids after it are not written.
SkipMissingGidEndsPage ==
    /\ wpc = "gids"
    /\ gi < Len(gid_pages[page_number + 1])
    /\ ~InDict(lab_files, CurrentGid)
    /\ warned' = Append(warned, CurrentGid)
    /\ gi' = Len(gid_pages[page_number + 1])
    /\ UNCHANGED <<gid_list, spp, lab_files, exercise_num, gid_pages, wpc,
                   parser, exercise_num_str, page_number, fp, files, styles,
                   error>>
    /\ UNCHANGED <<xvars, fvars, dvars>>

\* Lines 410-411: a gid that is no key of lab_files is reported and skipped.
SkipMissingGid ==
    /\ wpc = "gids"
    /\ gi < Len(gid_pages[page_number + 1])
    /\ ~InDict(lab_files, CurrentGid)
    /\ warned' = Append(warned, CurrentGid)
    /\ gi' = gi + 1
    /\ UNCHANGED <<gid_list, spp, lab_files, exercise_num, gid_pages, wpc,
                   parser, exercise_num_str, page_number, fp, files, styles,
                   error>>
    /\ UNCHANGED <<xvars, fvars, dvars>>

\* Lines 413-416: the heading is written, then the body the parser returns.
WriteFragment ==
    /\ wpc = "gids"
    /\ gi < Len(gid_pages[page_number + 1])
    /\ InDict(lab_files, CurrentGid)
    /\ LabOf(CurrentGid).ok
    /\ files' = Written(<< H1Tok(CurrentGid),
                           BodyTok(ParserCells(parser, LabOf(CurrentGid).cells,
                                               exercise_num)) >>)
    /\ gi' = gi + 1
    /\ UNCHANGED <<gid_list, spp, lab_files, exercise_num, gid_pages, wpc,
                   parser, exercise_num_str, page_number, fp, styles, warned,
                   error>>
    /\ UNCHANGED <<xvars, fvars, dvars>>

\* Lines 413-416 when nbformat.reads raises: the heading is already written,
\* the exception leaves write_pages_to_files with the file still open.
FragmentFails ==
    /\ wpc = "gids"
    /\ gi < Len(gid_pages[page_number + 1])
    /\ InDict(lab_files, CurrentGid)
    /\ ~LabOf(CurrentGid).ok
    /\ files' = Written(<< H1Tok(CurrentGid) >>)
    /\ wpc' = "raised"
    /\ error' = "DocumentParseError"
    /\ UNCHANGED <<gid_list, spp, lab_files, exercise_num, gid_pages, parser,
                   exercise_num_str, page_number, gi, fp, styles, warned>>
    /\ UNCHANGED <<xvars, fvars, dvars>>

\* Lines 417-419: the closing markup is written and the file closed.
ClosePage ==
    /\ wpc = "gids"
    /\ gi = Len(gid_pages[page_number + 1])
    /\ files' = Written(<< EndTok >>)
    /\ fp' = -1
    /\ page_number' = page_number + 1
    /\ wpc' = "pages"
    /\ UNCHANGED <<gid_list, spp, lab_files, exercise_num, gid_pages, parser,
                   exercise_num_str, gi, styles, warned, error>>
    /\ UNCHANGED <<xvars, fvars, dvars>>

\* Lines 421-428: the first value of lab_files is rendered once more and each
\* of the k style fragments the renderer returns is written to style{i}.css.
WriteStyles ==
    /\ wpc = "pages"
    /\ page_number = Len(gid_pages)
    /\ lab_files # <<>>
    /\ LabOf(lab_files[1]).ok
    /\ \E k \in 0..MaxCss : styles' = 0..(k - 1)
    /\ wpc' = "done"
    /\ UNCHANGED <<gid_list, spp, lab_files, exercise_num, gid_pages, parser,
                   exercise_num_str, page_number, gi, fp, files, warned, error>>
    /\ UNCHANGED <<xvars, fvars, dvars>>

\* Line 422 on an empty dict: list(lab_files.values())[0] raises IndexError.
StylesIndexError ==
    /\ wpc = "pages"
    /\ page_number = Len(gid_pages)
    /\ lab_files = <<>>
    /\ wpc' = "raised"
    /\ error' = "IndexError"
    /\ UNCHANGED <<gid_list, spp, lab_files, exercise_num, gid_pages, parser,
                   exercise_num_str, page_number, gi, fp, files, styles, warned>>
    /\ UNCHANGED <<xvars, fvars, dvars>>

\* Lines 421-423 when the first value of lab_files cannot be parsed.
StylesParseFails ==
    /\ wpc = "pages"
    /\ page_number = Len(gid_pages)
    /\ lab_files # <<>>
    /\ ~LabOf(lab_files[1]).ok
    /\ wpc' = "raised"
    /\ error' = "DocumentParseError"
    /\ UNCHANGED <<gid_list, spp, lab_files, exercise_num, gid_pages, parser,
                   exercise_num_str, page_number, gi, fp, files, styles, warned>>
    /\ UNCHANGED <<xvars, fvars, dvars>>

PNext ==
    \/ FormatExerciseNum
    \/ Paginate
    \/ SelectMerged
    \/ SelectSingle
    \/ SelectCoerce
    \/ OpenPage
    \/ SkipMissingGid
    \/ WriteFragment
    \/ FragmentFails
    \/ ClosePage
    \/ WriteStyles
    \/ StylesIndexError
    \/ StylesParseFails

SpecPages == PInit /\ [][PNext]_vars

\* save_dir after a run: each file the run wrote replaces the file of its
\* name; sel records the selector of the run that wrote it last.
Saved ==
    { d \in disk : \A i \in 1..Len(files) :
                      ~(d.ex = exercise_num_str /\ d.page = files[i].page) }
      \cup { [ex |-> exercise_num_str, page |-> files[i].page,
              content |-> files[i].content, sel |-> exercise_num] :
                i \in 1..Len(files) }

\* Lines 602-609 run once more after a run that finished: the same
\* lab_files and gid_pages, any selector, the same save_dir.
Rerun ==
    /\ wpc = "done"
    /\ calls < MaxRuns
    /\ disk' = Saved
    /\ calls' = calls + 1
    /\ \E sel \in Selectors : exercise_num' = sel
    /\ wpc' = "call"
    /\ parser' = "unset"
    /\ exercise_num_str' = <<>>
    /\ page_number' = 0
    /\ gi' = 0
    /\ files' = <<>>
    /\ styles' = {}
    /\ warned' = <<>>
    /\ UNCHANGED <<gid_list, spp, lab_files, gid_pages, fp, error>>
    /\ UNCHANGED <<xvars, fvars>>

RerunNext ==
    \/ PNext
    \/ Rerun

SpecRerun == PInit /\ [][RerunNext]_vars

\* ------------------------------------------- persistent_fetch_lab_files

\* The gids in the order np.setdiff1d (a sort) puts them.
GidsSorted == <<"s1", "s2", "s3">>

\* np.setdiff1d(list, keys): the gids of list that are no key, sorted, each
\* once.
setdiff1d(list, keys) ==
    SelectSeq(GidsSorted, LAMBDA g : InDict(list, g) /\ ~InDict(keys, g))

\* dict[key] = value: a new key goes to the end, a key held keeps its place.
PutKey(keys, gid) == IF InDict(keys, gid) THEN keys ELSE Append(keys, gid)

\* Lines 206-207: every key of new is put into old.
RECURSIVE UpdateKeys(_, _)
UpdateKeys(old, new) ==
    IF new = <<>> THEN old
    ELSE UpdateKeys(PutKey(old, Head(new)), Tail(new))

FetchInit ==
    /\ gid_list \in DistinctSeqsOf(GIDs, MaxStudents)
    /\ num_tries \in 1..MaxTries
    /\ attempt = 0
    /\ missing_keys = <<>>
    /\ fetching = gid_list
    /\ fidx = 0
    /\ labs = <<>>
    /\ broke = FALSE
    /\ failed = {}
    /\ fpc = "first"
    /\ spp = 1
    /\ lab_files = <<>>
    /\ exercise_num = IntSel(1)
    /\ gid_pages = <<>>
    /\ wpc = "idle"
    /\ parser = "unset"
    /\ exercise_num_str = <<>>
    /\ page_number = 0
    /\ gi = 0
    /\ fp = -1
    /\ files = <<>>
    /\ styles = {}
    /\ warned = <<>>
    /\ error = "none"
    /\ ExtractIdle
    /\ DirInit

FetchRunning == fpc \in {"first", "retry"} /\ ~broke /\ fidx < Len(fetching)

FetchOver == fpc \in {"first", "retry"} /\ (broke \/ fidx = Len(fetching))

\* Lines 139-143: the file of the next gid is fetched and stored.
FetchSucceeds ==
    /\ FetchRunning
    /\ labs' = PutKey(labs, fetching[fidx + 1])
    /\ fidx' = fidx + 1
    /\ UNCHANGED <<num_tries, attempt, missing_keys, fetching, broke, failed,
                   fpc>>
    /\ UNCHANGED <<xvars, pvars, dvars>>

\* Lines 144-147: GithubException for the next gid; the loop is left.
FetchRaises ==
    /\ FetchRunning
    /\ broke' = TRUE
    /\ failed' = failed \cup {fetching[fidx + 1]}
    /\ UNCHANGED <<num_tries, attempt, missing_keys, fetching, fidx, labs,
                   fpc>>
    /\ UNCHANGED <<xvars, pvars, dvars>>

\* Lines 193-198 (and 210-215 when num_tries is 1): the first
\* fetch_lab_files returns; the missing keys are computed and, with
\* range(num_tries - 1) not empty, handed to the next fetch_lab_files.
FirstFetchReturns ==
    /\ fpc = "first"
    /\ FetchOver
    /\ lab_files' = labs
    /\ missing_keys' = setdiff1d(gid_list, labs)
    /\ IF num_tries - 1 >= 1
       THEN /\ fpc' = "retry"
            /\ fetching' = missing_keys'
       ELSE /\ fpc' = "returned"
            /\ UNCHANGED fetching
    /\ attempt' = 0
    /\ fidx' = 0
    /\ labs' = <<>>
    /\ broke' = FALSE
    /\ UNCHANGED <<num_tries, failed>>
    /\ UNCHANGED <<gid_list, spp, exercise_num, gid_pages, wpc, parser,
                   exercise_num_str, page_number, gi, fp, files, styles,
                   warned, error>>
    /\ UNCHANGED <<xvars, dvars>>

\* Lines 204-209 (and 210-215): a later fetch_lab_files returns; its files
\* are merged, and the loop ends when nothing is missing or the tries are
\* used up.
RetryReturns ==
    /\ fpc = "retry"
    /\ FetchOver
    /\ lab_files' = UpdateKeys(lab_files, labs)
    /\ missing_keys' = setdiff1d(gid_list, lab_files')
    /\ IF Len(missing_keys') = 0 \/ attempt + 1 >= num_tries - 1
       THEN /\ fpc' = "returned"
            /\ UNCHANGED <<attempt, fetching>>
       ELSE /\ attempt' = attempt + 1
            /\ fetching' = missing_keys'
            /\ UNCHANGED fpc
    /\ fidx' = 0
    /\ labs' = <<>>
    /\ broke' = FALSE
    /\ UNCHANGED <<num_tries, failed>>
    /\ UNCHANGED <<gid_list, spp, exercise_num, gid_pages, wpc, parser,
                   exercise_num_str, page_number, gi, fp, files, styles,
                   warned, error>>
    /\ UNCHANGED <<xvars, dvars>>

FNext ==
    \/ FetchSucceeds
    \/ FetchRaises
    \/ FirstFetchReturns
    \/ RetryReturns

SpecFetch == FetchInit /\ [][FNext]_vars

\* ------------------------------------------------- claims on the extraction

\* 0-based indices of the non-empty markdown cells whose text matches the
\* heading pattern for n.
Matches(cells, n) ==
    { i \in 0..(Len(cells) - 1) :
        /\ cells[i + 1].cell_type = "markdown"
        /\ Len(CellSource(cells[i + 1])) # 0
        /\ HeadingSearch(n, CellSource(cells[i + 1])) }

MinOf(S) == CHOOSE x \in S : \A y \in S : x <= y

Located == xpc = "located"

\* C1: whenever some non-empty markdown cell matches the heading for n,
\* get_cell_loc returns as start the index of the FIRST matching cell, also
\* when several cells match.
C1_StartIsFirstMatch ==
    (Located /\ Matches(notebook, exercise_nums[1]) # {})
        => loc.a = MinOf(Matches(notebook, exercise_nums[1]))

\* C2: whenever the heading for n exists, get_cell_loc returns as end the
\* index of the first cell matching the heading for n + 1 (tested
\* independently of the match for n), and the number of cells when no cell
\* matches the heading for n + 1.
C2_EndIsFirstNextOrLen ==
    (Located /\ Matches(notebook, exercise_nums[1]) # {})
        => loc.b = IF Matches(notebook, exercise_nums[1] + 1) # {}
                   THEN MinOf(Matches(notebook, exercise_nums[1] + 1))
                   ELSE Len(notebook)

\* C3: when no markdown cell matches the heading for the exercise, locating
\* fails instead of returning a range: no extraction slices the notebook with
\* the sentinel start -1 (which Python counts from the end).
C3_NoSliceFromSentinelStart ==
    xpc = "single"
        => (Matches(notebook, exercise_nums[1]) # {} /\ loc.a # -1)

\* C4: every range that get_cell_loc returns as resolved satisfies
\* start < end; an out-of-order pair of headings is never handed on to the
\* slice.
C4_ResolvedRangeOrdered ==
    (xpc \in {"located", "single"} /\ loc.a # -1) => loc.a < loc.b

\* C5: the cells selected by get_exercises_from_lab for a list of exercise
\* numbers are the cells selected by get_exercise_from_lab for each number,
\* concatenated in the order the numbers were given, nothing removed.
C5_MergedIsConcatenation ==
    xpc = "merged"
        => lab_cells =
             SumLists([k \in 1..Len(exercise_nums) |->
                          get_exercise_from_lab(notebook, exercise_nums[k])])

\* C5 witness: two numbers given in decreasing order, both slices non-empty and
\* different, and more cells selected than the notebook holds (the ranges
\* overlap and nothing was deduplicated).
C5_Witness ==
    /\ xpc = "merged"
    /\ Len(exercise_nums) = 2
    /\ exercise_nums[1] > exercise_nums[2]
    /\ get_exercise_from_lab(notebook, exercise_nums[1]) # <<>>
    /\ get_exercise_from_lab(notebook, exercise_nums[2]) # <<>>
    /\ get_exercise_from_lab(notebook, exercise_nums[1])
         # get_exercise_from_lab(notebook, exercise_nums[2])
    /\ Len(lab_cells) > Len(notebook)

\* ---------------------------------------- claims on pagination and the pages

\* gid_pages has been computed (it then holds at least one page).
Paginated == gid_pages # <<>>

NonEmptyPages == SelectSeq(gid_pages, LAMBDA pg : pg # <<>>)

NoRepeat(q) == \A i, j \in 1..Len(q) : q[i] = q[j] => i = j

\* C6: concatenating the pages of gid_pages in increasing page number
\* (ignoring an empty trailing page) gives back gid_list: same order, no id
\* omitted, and no id of a roster without repetitions on two pages.
C6_PagesReconstructRoster ==
    Paginated =>
        /\ SumLists(NonEmptyPages) = gid_list
        /\ SumLists(gid_pages) = gid_list
        /\ NoRepeat(gid_list) =>
              \A k, m \in 1..Len(gid_pages) :
                  k # m => \A i \in 1..Len(gid_pages[k]) :
                              ~\E j \in 1..Len(gid_pages[m]) :
                                  gid_pages[k][i] = gid_pages[m][j]

\* C6 witness: a roster of three different ids cut into a full page and a
\* partial last page.
C6_Witness ==
    /\ Paginated
    /\ Len(gid_list) = 3
    /\ NoRepeat(gid_list)
    /\ spp = 2
    /\ Len(gid_pages) = 2
    /\ Len(gid_pages[2]) = 1

\* C7: gid_pages holds exactly count // p + 1 pages of at most p ids each;
\* exactly ceil(count / p) of them are non-empty; an empty page is the last
\* page, and the last page is empty exactly when count is a multiple of p.
C7_PageCounts ==
    Paginated =>
        LET count == Len(gid_list)
            n == Len(gid_pages)
        IN  /\ n = count \div spp + 1
            /\ \A k \in 1..n : Len(gid_pages[k]) <= spp
            /\ Len(NonEmptyPages) = (count + spp - 1) \div spp
            /\ \A k \in 1..n : gid_pages[k] = <<>> => k = n
            /\ (gid_pages[n] = <<>>) <=> (count % spp = 0)

\* C7 witness: a non-empty roster whose length is a multiple of the page
\* size, with the trailing page empty.
C7_Witness ==
    /\ Paginated
    /\ Len(gid_list) > 0
    /\ Len(gid_list) % spp = 0
    /\ Len(gid_pages) = Len(gid_list) \div spp + 1
    /\ gid_pages[Len(gid_pages)] = <<>>

\* C8: write_pages_to_files creates no page file for an empty page.
C8_NoFileForEmptyPage ==
    \A i \in 1..Len(files) : gid_pages[files[i].page + 1] # <<>>

\* The fragments of a page file: each heading that is followed by a body, as
\* the pair of the heading's gid and the body's cells, in file order.
RECURSIVE Fragments(_)
Fragments(content) ==
    IF Len(content) < 2 THEN <<>>
    ELSE IF content[1].tag = "h1" /\ content[2].tag = "body"
         THEN << <<content[1].gid, content[2].cells>> >>
                  \o Fragments(SubSeq(content, 3, Len(content)))
         ELSE Fragments(Tail(content))

\* The gids of page k that the loop of line 409 has gone past: all of them
\* for an earlier page, the first gi for the page whose file is open.
Handled(k) ==
    IF k < page_number THEN gid_pages[k + 1]
    ELSE IF k = page_number /\ fp = k
         THEN SubSeq(gid_pages[k + 1], 1, gi)
         ELSE <<>>

PresentOf(q) == SelectSeq(q, LAMBDA g : InDict(lab_files, g))
AbsentOf(q) == SelectSeq(q, LAMBDA g : ~InDict(lab_files, g))

C10_MissingNeverFatal ==
    ( /\ (exercise_num.kind = "int" \/ Len(exercise_num.nums) >= 2)
      /\ \A i \in 1..Len(lab_files) : LabOf(lab_files[i]).ok )
        => wpc # "raised"

\* ------------------------------------------- claims on failures and styles

\* The page file of page k holds a fragment for gid.
HasFragment(k, gid) ==
    \E i \in 1..Len(files) :
        /\ files[i].page = k
        /\ \E f \in 1..Len(Fragments(files[i].content)) :
              Fragments(files[i].content)[f][1] = gid

\* C11: a failure on one student's submission is contained: when parsing a
\* submission has failed inside write_pages_to_files, the fragments of the
\* other students (every gid of every page that is a key of lab_files and
\* whose submission parses) are still written.
C11_FailureContained ==
    (wpc = "raised" /\ error = "DocumentParseError" /\ fp # -1)
        => \A k \in 1..Len(gid_pages) :
              \A j \in 1..Len(gid_pages[k]) :
                  (InDict(lab_files, gid_pages[k][j])
                      /\ LabOf(gid_pages[k][j]).ok)
                      => HasFragment(k - 1, gid_pages[k][j])

Complete(content) == content[Len(content)] = EndTok

\* C12: each page file receives its head, its fragments and the closing
\* markup and is closed before the next one is opened: every page file other
\* than the one open is complete, and when write_pages_to_files has ended no
\* file is open and every page file opened holds its closing markup.
C12_PageFilesClosedInTurn ==
    /\ \A i \in 1..Len(files) :
          files[i].page # fp => Complete(files[i].content)
    /\ wpc \in {"done", "raised"} =>
          /\ fp = -1
          /\ \A i \in 1..Len(files) : Complete(files[i].content)

\* Lines 404-405: the indices i of the style{i}.css files the head written to
\* every page file links.
HeadLinks == {0, 1}

\* C13: for every number k of style fragments the renderer returns,
\* style0.css .. style{k-1}.css are written and the head of every page file
\* links exactly those files.
C13_LinkedStylesAreWritten ==
    wpc = "done" => styles = HeadLinks

\* ------------------------------------------------ claims on the selector

\* C14: with no exercise number the run aborts before anything is rendered
\* or written; one number (also as a list of one) selects
\* get_exercise_from_lab and the file name carries that number; several
\* numbers select get_exercises_from_lab and the file name carries them
\* concatenated in the order given.
C14_SelectorHandling ==
    /\ (exercise_num.kind = "list" /\ Len(exercise_num.nums) = 0)
          => (parser = "unset" /\ files = <<>>)
    /\ (exercise_num.kind = "list" /\ Len(exercise_num.nums) = 1)
          => error # "TypeError"
    /\ parser = "get_exercise_from_lab"
          => /\ exercise_num.kind = "int"
             /\ exercise_num_str = Str(exercise_num.n)
    /\ parser = "get_exercises_from_lab"
          => /\ exercise_num.kind = "list"
             /\ Len(exercise_num.nums) >= 2
             /\ exercise_num_str =
                   Join([k \in 1..Len(exercise_num.nums) |->
                            Str(exercise_num.nums[k])])

\* ------------------------------------------------- claims on the headings

IsDigit(tok) == tok \in {"0", "1", "2", "3", "4", "5", "6", "7", "8", "9"}

\* The text holds a heading for the number n and no other: as HeadingSearch,
\* and no further digit follows the digits of n.
NamesExactly(n, text) ==
    \E i \in 1..Len(text) :
        /\ text[i] = "#"
        /\ \E j \in (i + 1)..Len(text) :
              /\ \A k \in (i + 1)..(j - 1) : text[k] # "\n"
              /\ StartsAt(text, j, Pattern(n))
              /\ LET after == j + Len(Pattern(n))
                 IN  after <= Len(text) => ~IsDigit(text[after])

\* C19: the cell get_cell_loc records as start names exactly exercise n, and
\* the cell it records as end names exactly exercise n + 1; a heading whose
\* number only begins with the digits asked for is not taken.
C19_BoundaryNamesExactNumber ==
    Located =>
        /\ loc.a >= 0 =>
              NamesExactly(exercise_nums[1], CellSource(notebook[loc.a + 1]))
        /\ (loc.a >= 0 /\ loc.b >= 0 /\ loc.b < Len(notebook)) =>
              NamesExactly(exercise_nums[1] + 1,
                           CellSource(notebook[loc.b + 1]))

\* -------------------------------------------------- claims on the early exit

\* C15: the pair get_cell_loc returns with the early exit is the pair it
\* would return from the scan of every cell (ScanCellsScript, the loop
\* without the break), with the same default for an end not found.
C15_EarlyExitSameAsFullScan ==
    Located =>
        LET full == ScanCellsScript(notebook, exercise_nums[1], 0, -1, -1)
        IN  /\ loc.a = full[1]
            /\ loc.b = IF full[1] # -1 /\ full[2] = -1
                       THEN Len(notebook) ELSE full[2]

\* ---------------------------------------------------- claims on the fetch

\* C16: with num_tries >= 2 every gid of gid_list whose fetch never raised
\* is a key of the mapping returned, wherever the gids that raise stand in
\* gid_list; the keys are gids of gid_list; and a gid already received is
\* not handed to a fetch again.
C16_ReliableGidsFetched ==
    /\ (fpc = "returned" /\ num_tries >= 2) =>
          \A i \in 1..Len(gid_list) :
              gid_list[i] \notin failed => InDict(lab_files, gid_list[i])
    /\ fpc # "idle" =>
          \A i \in 1..Len(lab_files) : InDict(gid_list, lab_files[i])
    /\ FetchRunning =>
          /\ ~InDict(lab_files, fetching[fidx + 1])
          /\ ~InDict(labs, fetching[fidx + 1])

\* ------------------------------------------ claims on the output directory

\* C17: two different exercise selectors never give the same page file
\* name: a file a run opens was, if it is already in save_dir, written by a
\* run with the same selector.
C17_FileNamesUnambiguous ==
    \A i \in 1..Len(files) :
        \A d \in OnDisk(exercise_num_str, files[i].page) :
            d.sel = exercise_num

\* C18: after a second run of write_pages_to_files with the same lab_files,
\* pages and selector, every page file has the content the first run left
\* (one head, one fragment for each student handled, one closing tag).
C18_SecondRunSameContent ==
    (wpc = "done" /\ calls >= 2) =>
        \A i \in 1..Len(files) :
            \A d \in OnDisk(exercise_num_str, files[i].page) :
                d.sel = exercise_num => files[i].content = d.content

====
